---- MODULE Spec2Model ----
(***************************************************************************)
(* libearth.parser.rss2: the RSS 2.0 parser that maps a parsed document    *)
(* onto the Atom-like feed model.                                          *)
(*                                                                         *)
(* Text is a sequence of one-character strings, so that prefix tests and   *)
(* the GUID regular expression are computed character by character.  An    *)
(* element without text (element.text is None) has the empty sequence:     *)
(* the tree parser never yields an empty string as text.  An optional      *)
(* value is a sequence of length 0 (None) or 1.                            *)
(***************************************************************************)
EXTENDS Integers, Sequences, FiniteSets, TLC

VARIABLES
    xml,        \* the document handed to parse_rss2 (channel children, items)
    parse_entry,\* the parse_entry argument of the top-level calls
    stack,      \* the parse_rss2 calls in progress, the top-level one first
    results,    \* what the completed top-level calls returned, in order
    last,       \* the top-level call's frame as it was when the call ended
    fetched,    \* the fetches of the current top-level call, in order
    logs,       \* the fetches of each call that has ended, in order
    clock,      \* the latest reading of the wall clock
    gElem,      \* parse_guid on its own: the element
    gOut        \* parse_guid on its own: what it returned

vars == <<xml, parse_entry, stack, results, last, fetched, logs, clock, gElem, gOut>>
pvars == <<xml, parse_entry, stack, results, last, fetched, logs, clock>>
gvars == <<gElem, gOut>>

None == <<>>
Some(v) == <<v>>

\* ------------------------------------------------------------------ text

HTTP == <<"h", "t", "t", "p", ":", "/", "/">>
HTTPS == <<"h", "t", "t", "p", "s", ":", "/", "/">>
URN_UUID == <<"u", "r", "n", ":", "u", "u", "i", "d", ":">>
UUID0 == <<"1", "2", "3", "e", "4", "5", "6", "7", "-", "e", "8", "9", "b", "-",
           "1", "2", "d", "3", "-", "A", "4", "5", "6", "-", "4", "2", "6", "6",
           "1", "4", "1", "7", "4", "0", "0", "0">>
EXAMPLE == <<"e", "x", "a", "m", "p", "l", "e", ".", "c", "o", "m", "/", "1">>
OPAQUE == <<"n", "o", "t", "-", "a", "-", "g", "u", "i", "d", "-", "o", "r", "-",
            "u", "r", "l">>

\* str.startswith
startswith(text, prefix) ==
    /\ Len(text) >= Len(prefix)
    /\ \A k \in 1..Len(prefix) : text[k] = prefix[k]

\* The character class [0-9a-fA-F] of GUID_PATTERN.
HexDigit ==
    {"0", "1", "2", "3", "4", "5", "6", "7", "8", "9",
     "a", "b", "c", "d", "e", "f", "A", "B", "C", "D", "E", "F"}

\* The groups of GUID_PATTERN between the optional braces, matched from
\* offset off: ([0-9a-fA-F]){8}-(..){4}-(..){4}-(..){4}-(..){12}.
GuidBodyAt(text, off) ==
    /\ Len(text) >= off + 36
    /\ \A k \in 1..36 :
          IF k \in {9, 14, 19, 24}
          THEN text[off + k] = "-"
          ELSE text[off + k] \in HexDigit

\* GUID_PATTERN.match(text): ^ ( \{{0,1} body \}{0,1} ) $ .  Each brace is
\* optional on its own, and $ also matches just before a final newline.
GUID_PATTERN_match(text) ==
    LET open == IF Len(text) >= 1 /\ text[1] = "{" THEN 1 ELSE 0
        close == IF Len(text) > open + 36 /\ text[open + 37] = "}" THEN 1 ELSE 0
        end == open + 36 + close
    IN  /\ GuidBodyAt(text, open)
        /\ \/ end = Len(text)
           \/ end + 1 = Len(text) /\ text[Len(text)] = "\n"

\* -------------------------------------------------------------- elements

NoAttr == [rel |-> None, href |-> None, type |-> None, url |-> None,
           domain |-> None, isPermalink |-> None]

Elem(tag, ns, text, attrib) ==
    [tag |-> tag, ns |-> ns, text |-> text, attrib |-> attrib]

\* element.get(name)
Get(element, name) == element.attrib[name]

\* element.get(name, default)
GetDefault(element, name, default) ==
    IF element.attrib[name] = None THEN default ELSE element.attrib[name][1]

\* What a handler hands back: a value (None: nothing to store), or the
\* exception it raised.
Returned(value) == [raised |-> FALSE, value |-> value, error |-> "none"]
Raised(error) == [raised |-> TRUE, value |-> None, error |-> error]

\* parse_guid without the isPermalink test.
parse_guid_no_flag(element) ==
    IF element.text = None
    THEN Raised("AttributeError")
    ELSE IF startswith(element.text, HTTP)
    THEN Returned(Some(element.text))
    ELSE IF GUID_PATTERN_match(element.text)
    THEN Returned(Some(URN_UUID \o element.text))
    ELSE Returned(None)

\* parse_guid: None.startswith raises AttributeError when the element has
\* no text.
parse_guid(element) ==
    LET isPermalink == Get(element, "isPermalink")
    IN  IF element.text = None
        THEN Raised("AttributeError")
        ELSE IF startswith(element.text, HTTP) /\ isPermalink # Some("False")
        THEN Returned(Some(element.text))
        ELSE IF GUID_PATTERN_match(element.text)
        THEN Returned(Some(URN_UUID \o element.text))
        ELSE Returned(None)

\* -------------------------------------------------------------- entities

\* Feed() and Entry() as parse_channel and parse_item create them: every
\* scalar field unset, every collection empty.  entries is None until
\* parse_rss2 assigns it.
Feed ==
    [title |-> None, rights |-> None, subtitle |-> None, updated_at |-> None,
     id |-> None, generator |-> None, links |-> <<>>, contributors |-> <<>>,
     categories |-> <<>>, entries |-> None]

Entry ==
    [title |-> None, published_at |-> None, id |-> None, content |-> None,
     source |-> None, links |-> <<>>, authors |-> <<>>, categories |-> <<>>]

Link(uri, relation, mimetype) ==
    [uri |-> uri, relation |-> relation, mimetype |-> mimetype]

Category(term, scheme_uri) == [term |-> term, scheme_uri |-> scheme_uri]

\* Generator(uri=...) and Generator(value=...): the argument not given is
\* unset.
Generator(uri, value) == [uri |-> uri, value |-> value]

\* RSSSession(feed_url, default_tzinfo)
RSSSession(feed_url, default_tzinfo) ==
    [feed_url |-> feed_url, default_tzinfo |-> default_tzinfo]

\* The collection fields of the feed model.
Multiple(attr_name) ==
    attr_name \in {"links", "contributors", "categories", "authors"}

\* The field aggregator with first-write-wins scalars.
apply_first_wins(entity, attr_name, value) ==
    IF value = None
    THEN entity
    ELSE IF Multiple(attr_name)
    THEN [entity EXCEPT ![attr_name] = Append(@, value[1])]
    ELSE IF entity[attr_name] = None
    THEN [entity EXCEPT ![attr_name] = value]
    ELSE entity

\* The field aggregator: a None value is dropped, a collection field is
\* appended to, a scalar field is overwritten.
apply(entity, attr_name, value) ==
    IF value = None
    THEN entity
    ELSE IF Multiple(attr_name)
    THEN [entity EXCEPT ![attr_name] = Append(@, value[1])]
    ELSE [entity EXCEPT ![attr_name] = value]

\* -------------------------------------------------------------- handlers

\* The date texts of the inputs and the instants they denote.
DateTexts == {<<"1">>, <<"2">>, <<"3">>}
Instant(text) == CASE text = <<"1">> -> 1 [] text = <<"2">> -> 2 [] text = <<"3">> -> 3

\* rss_base.datetime_parser: the date text as an absolute timestamp.
datetime_parser(element, session) ==
    IF element.text \in DateTexts
    THEN Returned(Some(Instant(element.text)))
    ELSE Returned(None)

\* rss_base.person_parser: unparsable text is kept as the display name.
person_parser(element, session) ==
    Returned(Some([name |-> element.text, email |-> None]))

\* rss_base.text_parser, subtitle_parser, content_parser: text with a type.
text_parser(element, session) ==
    Returned(Some([type |-> "text", value |-> element.text]))

subtitle_parser(element, session) ==
    Returned(Some([type |-> "text", value |-> element.text]))

content_parser(element, session) ==
    Returned(Some([type |-> "html", value |-> element.text]))

\* rss_base.link_parser: the element's text as an alternate link.
link_parser(element, session) ==
    Returned(Some(Link(Some(element.text), "alternate", None)))

parse_datetime(element, session) == datetime_parser(element, session)

parse_person(element, session) == person_parser(element, session)

parse_category(element, session) ==
    Returned(Some(Category(element.text, Get(element, "domain"))))

parse_text(element, session) == text_parser(element, session)

parse_subtitle(element, session) == subtitle_parser(element, session)

parse_atom_link(element, session) ==
    Returned(Some(Link(Get(element, "href"),
                       GetDefault(element, "rel", "alternate"),
                       Get(element, "type"))))

parse_link(element, session) == link_parser(element, session)

\* urllib's urlparse as parse_generator uses it, for the scheme and the
\* ValueError alone.  A character that has no literal here is written by
\* its code point, as in "U+000B".
UpperCase ==
    <<"A", "B", "C", "D", "E", "F", "G", "H", "I", "J", "K", "L", "M", "N", "O",
      "P", "Q", "R", "S", "T", "U", "V", "W", "X", "Y", "Z">>

LowerCase ==
    <<"a", "b", "c", "d", "e", "f", "g", "h", "i", "j", "k", "l", "m", "n", "o",
      "p", "q", "r", "s", "t", "u", "v", "w", "x", "y", "z">>

DecimalDigits == <<"0", "1", "2", "3", "4", "5", "6", "7", "8", "9">>

HexDigits ==
    <<"0", "1", "2", "3", "4", "5", "6", "7", "8", "9", "a", "b", "c", "d", "e", "f">>

Range(seq) == {seq[k] : k \in 1..Len(seq)}

isalpha(c) == c \in Range(UpperCase) \cup Range(LowerCase)

scheme_chars ==
    Range(UpperCase) \cup Range(LowerCase) \cup Range(DecimalDigits) \cup {"+", "-", "."}

\* The characters U+0000 to U+0020.
WHATWG_C0_CONTROL_OR_SPACE ==
    {" ", "\t", "\n", "\r", "\f",
     "U+0000", "U+0001", "U+0002", "U+0003", "U+0004", "U+0005", "U+0006",
     "U+0007", "U+0008", "U+000B", "U+000E", "U+000F", "U+0010", "U+0011",
     "U+0012", "U+0013", "U+0014", "U+0015", "U+0016", "U+0017", "U+0018",
     "U+0019", "U+001A", "U+001B", "U+001C", "U+001D", "U+001E", "U+001F"}

UNSAFE_URL_BYTES_TO_REMOVE == {"\t", "\r", "\n"}

\* The characters whose NFKC form holds one of / ? # @ : (Unicode 14).
NFKC_DELIMITED ==
    {"U+2047", "U+2048", "U+2049", "U+2100", "U+2101", "U+2105", "U+2106",
     "U+2A74", "U+FE13", "U+FE16", "U+FE55", "U+FE56", "U+FE5F", "U+FE6B",
     "U+FF03", "U+FF0F", "U+FF1A", "U+FF1F", "U+FF20"}

lower(text) ==
    [k \in 1..Len(text) |->
        IF text[k] \in Range(UpperCase)
        THEN LowerCase[CHOOSE n \in 1..26 : UpperCase[n] = text[k]]
        ELSE text[k]]

RECURSIVE lstrip(_, _)
lstrip(text, chars) ==
    IF text # <<>> /\ Head(text) \in chars THEN lstrip(Tail(text), chars) ELSE text

\* str.find for a set of characters, counted from 1; 0 when there is none.
find(text, chars) ==
    IF \E k \in 1..Len(text) : text[k] \in chars
    THEN CHOOSE k \in 1..Len(text) :
            text[k] \in chars /\ \A n \in 1..(k - 1) : text[n] \notin chars
    ELSE 0

\* str.partition(sep): the text before the first sep, and the text after it.
Take(text, i) == IF i = 0 THEN text ELSE SubSeq(text, 1, i - 1)

Drop(text, i) == IF i = 0 THEN <<>> ELSE SubSeq(text, i + 1, Len(text))

Before(text, sep) == Take(text, find(text, {sep}))

After(text, sep) == Drop(text, find(text, {sep}))

\* str.split(sep)
RECURSIVE split(_, _)
split(text, sep) ==
    IF sep \notin Range(text)
    THEN <<text>>
    ELSE <<Before(text, sep)>> \o split(After(text, sep), sep)

\* int(text, 10) of a text of decimal digits, and '%x' % n.
RECURSIVE int10(_)
int10(text) ==
    IF text = <<>> THEN 0
    ELSE 10 * int10(SubSeq(text, 1, Len(text) - 1))
         + (CHOOSE d \in 0..9 : DecimalDigits[d + 1] = text[Len(text)])

RECURSIVE hex(_)
hex(n) == IF n < 16 THEN <<HexDigits[n + 1]>> ELSE hex(n \div 16) \o <<HexDigits[(n % 16) + 1]>>

\* ipaddress: whether IPv4Address._parse_octet, IPv6Address._parse_hextet,
\* IPv4Address(text) and IPv6Address(text) accept the text.
parse_octet(octet_str) ==
    /\ octet_str # <<>>
    /\ Range(octet_str) \subseteq Range(DecimalDigits)
    /\ Len(octet_str) <= 3
    /\ octet_str = <<"0">> \/ octet_str[1] # "0"
    /\ int10(octet_str) <= 255

parse_hextet(hextet_str) ==
    /\ Range(hextet_str) \subseteq HexDigit
    /\ Len(hextet_str) <= 4
    /\ hextet_str # <<>>

Octets(octets) == Len(octets) = 4 /\ \A k \in 1..4 : parse_octet(octets[k])

IPv4Address(address) ==
    /\ "/" \notin Range(address)
    /\ address # <<>>
    /\ Octets(split(address, "."))

\* The two hextets an IPv4-style suffix is converted to.
SuffixHextets(octets) ==
    <<hex(int10(octets[1]) * 256 + int10(octets[2])),
      hex(int10(octets[3]) * 256 + int10(octets[4]))>>

\* The parts around a '::': parts_hi before it and parts_lo after it.
Compressed(parts, parts_hi, parts_lo) ==
    /\ parts[1] = <<>> => parts_hi = 0
    /\ parts[Len(parts)] = <<>> => parts_lo = 0
    /\ 8 - (parts_hi + parts_lo) >= 1
    /\ \A i \in 1..parts_hi : parse_hextet(parts[i])
    /\ \A i \in (Len(parts) - parts_lo + 1)..Len(parts) : parse_hextet(parts[i])

Skipped(parts, skip_index) ==
    Compressed(parts,
               IF parts[1] = <<>> THEN skip_index - 2 ELSE skip_index - 1,
               IF parts[Len(parts)] = <<>>
               THEN Len(parts) - skip_index - 1
               ELSE Len(parts) - skip_index)

Hextets(parts, skipped) ==
    /\ Len(parts) <= 9
    /\ Cardinality(skipped) <= 1
    /\ IF skipped # {}
       THEN Skipped(parts, CHOOSE i \in skipped : TRUE)
       ELSE /\ Len(parts) = 8
            /\ parts[1] # <<>>
            /\ parts[Len(parts)] # <<>>
            /\ \A i \in 1..Len(parts) : parse_hextet(parts[i])

Parts(parts) == Hextets(parts, {i \in 2..(Len(parts) - 1) : parts[i] = <<>>})

Suffixed(parts, suffix) ==
    IF "." \in Range(suffix)
    THEN /\ IPv4Address(suffix)
         /\ Parts(SubSeq(parts, 1, Len(parts) - 1) \o SuffixHextets(split(suffix, ".")))
    ELSE Parts(parts)

SplitParts(parts) == Len(parts) >= 3 /\ Suffixed(parts, parts[Len(parts)])

ip_int_from_string(ip_str) == ip_str # <<>> /\ SplitParts(split(ip_str, ":"))

ScopeId(scope_id) == scope_id # <<>> /\ "%" \notin Range(scope_id)

IPv6Address(address) ==
    /\ "/" \notin Range(address)
    /\ "%" \in Range(address) => ScopeId(After(address, "%"))
    /\ ip_int_from_string(Before(address, "%"))

\* urllib.parse._check_bracketed_host and _checknetloc: whether they return
\* without a ValueError.  An IPvFuture host is v, hex digits, a dot and more;
\* any other host between brackets has to be an IPv6 address.
IPvFuture(hostname, dot) ==
    /\ dot > 2
    /\ \A k \in 2..(dot - 1) : hostname[k] \in HexDigit
    /\ dot < Len(hostname)

check_bracketed_host(hostname) ==
    IF startswith(hostname, <<"v">>)
    THEN IPvFuture(hostname, find(hostname, {"."}))
    ELSE ~IPv4Address(hostname) /\ IPv6Address(hostname)

checknetloc(netloc) == Range(netloc) \cap NFKC_DELIMITED = {}

\* urlsplit: leading spaces and control characters are stripped and tabs and
\* line breaks removed; the scheme is the text before the first colon, in
\* lower case, when it starts with a letter and holds only scheme characters;
\* the network location after // is checked.
splitnetloc(url) == Take(url, find(url, {"/", "?", "#"}))

UrlNetloc(scheme, netloc) ==
    IF \/ ("[" \in Range(netloc)) # ("]" \in Range(netloc))
       \/ /\ "[" \in Range(netloc)
          /\ "]" \in Range(netloc)
          /\ ~check_bracketed_host(Before(After(netloc, "["), "]"))
       \/ ~checknetloc(netloc)
    THEN Raised("ValueError")
    ELSE Returned(scheme)

UrlRest(scheme, url) ==
    IF startswith(url, <<"/", "/">>)
    THEN UrlNetloc(scheme, splitnetloc(SubSeq(url, 3, Len(url))))
    ELSE Returned(scheme)

UrlScheme(url, i) ==
    IF i > 1 /\ isalpha(url[1]) /\ \A k \in 1..(i - 1) : url[k] \in scheme_chars
    THEN UrlRest(lower(SubSeq(url, 1, i - 1)), SubSeq(url, i + 1, Len(url)))
    ELSE UrlRest(<<>>, url)

UrlStripped(url) == UrlScheme(url, find(url, {":"}))

urlsplit(text) ==
    UrlStripped(SelectSeq(lstrip(text, WHATWG_C0_CONTROL_OR_SPACE),
                       LAMBDA c : c \notin UNSAFE_URL_BYTES_TO_REMOVE))

\* A text with an http or https scheme is the generator's uri; any other
\* text, one urlparse rejects included, is its value.
parse_generator(element, session) ==
    LET parsed == urlsplit(element.text)
        generator ==
            IF ~parsed.raised
               /\ parsed.value \in {<<"h", "t", "t", "p">>, <<"h", "t", "t", "p", "s">>}
            THEN Some(Generator(Some(element.text), None))
            ELSE None
    IN  Returned(IF generator # None
                 THEN generator
                 ELSE Some(Generator(None, Some(element.text))))

\* parse_enclosure taking the relation from a rel attribute when there is one.
parse_enclosure_rel(element, session) ==
    Returned(Some(Link(Get(element, "url"),
                       GetDefault(element, "rel", "enclosure"),
                       Get(element, "type"))))

parse_enclosure(element, session) ==
    Returned(Some(Link(Get(element, "url"), "enclosure", Get(element, "type"))))

parse_comments(element, session) ==
    Returned(Some(Link(Some(element.text), "discussion", None)))

parse_content(element, session) == content_parser(element, session)

\* -------------------------------------------------------------- registry

ATOM_XMLNS == "http://www.w3.org/2005/Atom"
ATOM_XMLNS_OLD == "http://purl.org/atom/ns#"
ATOM_XMLNS_SET == {ATOM_XMLNS, ATOM_XMLNS_OLD}
CONTENT_XMLNS == "http://purl.org/rss/1.0/modules/content/"

Path(container, element_name, namespace_set, attr_name, handler) ==
    [container |-> container, element_name |-> element_name,
     namespace_set |-> namespace_set, attr_name |-> attr_name,
     handler |-> handler]

\* The path() registrations under parse_channel and parse_item, in the order
\* the module makes them: stacked decorators register bottom-up.  An empty
\* namespace set is the default one; attr_name defaults to the element name.
Registry ==
    << Path("item", "pubDate", {}, "published_at", "parse_datetime"),
       Path("channel", "pubDate", {}, "updated_at", "parse_datetime"),
       Path("item", "author", {}, "authors", "parse_person"),
       Path("channel", "webMaster", {}, "contributors", "parse_person"),
       Path("channel", "managingEditor", {}, "contributors", "parse_person"),
       Path("item", "category", {}, "categories", "parse_category"),
       Path("channel", "category", {}, "categories", "parse_category"),
       Path("item", "title", {}, "title", "parse_text"),
       Path("channel", "copyright", {}, "rights", "parse_text"),
       Path("channel", "title", {}, "title", "parse_text"),
       Path("channel", "description", {}, "subtitle", "parse_subtitle"),
       Path("channel", "link", ATOM_XMLNS_SET, "links", "parse_atom_link"),
       Path("item", "link", {}, "links", "parse_link"),
       Path("channel", "link", {}, "links", "parse_link"),
       Path("channel", "generator", {}, "generator", "parse_generator"),
       Path("item", "enclosure", {}, "links", "parse_enclosure"),
       Path("item", "source", {}, "source", "parse_source"),
       Path("item", "comments", {}, "links", "parse_comments"),
       Path("item", "encoded", {CONTENT_XMLNS}, "content", "parse_content"),
       Path("item", "description", {}, "content", "parse_content"),
       Path("item", "guid", {}, "id", "parse_guid") >>

\* Whether a registration's namespace set accepts the element's namespace:
\* the default set accepts an element without a namespace, an explicit set
\* the elements whose namespace is a member.
NamespaceMatches(namespace_set, ns) ==
    IF namespace_set = {} THEN ns = "" ELSE ns \in namespace_set

\* The registrations that match a child of the container, in registration
\* order.
Matching(container, child) ==
    SelectSeq(Registry,
              LAMBDA p : /\ p.container = container
                         /\ p.element_name = child.tag
                         /\ NamespaceMatches(p.namespace_set, child.ns))

\* The handler a registration names, applied to the element.
Handle(handler, element, session) ==
    CASE handler = "parse_datetime" -> parse_datetime(element, session)
      [] handler = "parse_person" -> parse_person(element, session)
      [] handler = "parse_category" -> parse_category(element, session)
      [] handler = "parse_text" -> parse_text(element, session)
      [] handler = "parse_subtitle" -> parse_subtitle(element, session)
      [] handler = "parse_atom_link" -> parse_atom_link(element, session)
      [] handler = "parse_link" -> parse_link(element, session)
      [] handler = "parse_generator" -> parse_generator(element, session)
      [] handler = "parse_enclosure" -> parse_enclosure(element, session)
      [] handler = "parse_comments" -> parse_comments(element, session)
      [] handler = "parse_content" -> parse_content(element, session)
      [] handler = "parse_guid" -> parse_guid(element)

IsSourcePath(paths) ==
    \E k \in 1..Len(paths) : paths[k].handler = "parse_source"

\* One child dispatched: every matching registration's handler runs, in
\* registration order, and its value goes through the field aggregator.  A
\* handler that raises ends the dispatch with its error.
RECURSIVE DispatchChild(_, _, _, _)
DispatchChild(entity, paths, child, session) ==
    IF paths = <<>>
    THEN [raised |-> FALSE, entity |-> entity, error |-> "none"]
    ELSE LET r == Handle(Head(paths).handler, child, session)
         IN  IF r.raised
             THEN [raised |-> TRUE, entity |-> entity, error |-> r.error]
             ELSE DispatchChild(apply(entity, Head(paths).attr_name, r.value),
                                Tail(paths), child, session)

\* ------------------------------------------------------------ parse_rss2

\* Bounds of the model: the leaves of the top-level document (the children
\* of the channel and of the items, and the items without children), the
\* top-level calls made on it, the readings of the clock, and the calls the
\* stack may hold.
MaxLeaves == 2
MaxCalls == 2
MaxClock == 1
MaxDepth == 3

FEED_URL == "u0"
SOURCE_URL == "u1"
Urls == {FEED_URL, SOURCE_URL}

Document(channel, items) == [channel |-> channel, items |-> items]

TitleA == Elem("title", "", <<"A">>, NoAttr)
TitleB == Elem("title", "", <<"B">>, NoAttr)
PubDate(text) == Elem("pubDate", "", text, NoAttr)
AtomLink(rel) ==
    Elem("link", ATOM_XMLNS, None, [NoAttr EXCEPT !.href = Some("h"), !.rel = rel])
GeneratorElem(text) == Elem("generator", "", text, NoAttr)
Guid(text) == Elem("guid", "", text, NoAttr)
Enclosure ==
    Elem("enclosure", "", None,
         [NoAttr EXCEPT !.url = Some("e"), !.rel = Some("alternate")])
Comments == Elem("comments", "", <<"C">>, [NoAttr EXCEPT !.rel = Some("related")])
Source(url) == Elem("source", "", None, [NoAttr EXCEPT !.url = Some(url)])

\* The children the input documents are built from.
ChannelElems ==
    {TitleA, TitleB, PubDate(<<"2">>), AtomLink(None), AtomLink(Some("self")),
     GeneratorElem(HTTPS \o EXAMPLE)}

ItemElems ==
    {PubDate(<<"1">>), PubDate(<<"3">>), Guid(None),
     Enclosure, Comments, Source(SOURCE_URL)}

\* What a fetched url turns out to be: open_url or read fails, get_format
\* knows no parser for it, the document does not parse, or it is an RSS 2.0
\* document, whose item here names the original feed as its source.
NestedCycle ==
    Document(<<PubDate(<<"2">>)>>, << <<PubDate(<<"1">>), Source(FEED_URL)>> >>)

Fetched(kind, doc) == [kind |-> kind, xml |-> doc]

WebOutcomes ==
    {Fetched("FetchError", Document(<<>>, <<>>)),
     Fetched("UnknownFormat", Document(<<>>, <<>>)),
     Fetched("MalformedDocument", Document(<<>>, <<>>)),
     Fetched("rss2", NestedCycle)}

Leaves(doc) ==
    LET RECURSIVE Sum(_)
        Sum(items) ==
            IF items = <<>> THEN 0
            ELSE (IF Head(items) = <<>> THEN 1 ELSE Len(Head(items))) + Sum(Tail(items))
    IN  Len(doc.channel) + Sum(doc.items)

\* rss_base.guess_default_tzinfo
guess_default_tzinfo(root, feed_url) == "UTC"

\* parse_rss2 up to the call of parse_channel, which creates the Feed: the
\* state of one call.  pc is where the call is: dispatching the children of
\* the channel, between two items, dispatching the children of item i + 1,
\* before make_legal_as_atom, before the return.
Frame(doc, feed_url, with_entries) ==
    [xml |-> doc, feed_url |-> feed_url, parse_entry |-> with_entries,
     session |-> RSSSession(feed_url, guess_default_tzinfo(doc, feed_url)),
     pc |-> "channel", feed_data |-> Feed, entry_list |-> <<>>,
     i |-> 0, j |-> 0, entry |-> Entry, norm |-> 0]

Success(feed) == [ok |-> TRUE, feed |-> Some(feed), hint |-> None, error |-> "none"]
Failure(error) == [ok |-> FALSE, feed |-> None, hint |-> None, error |-> error]

Top == stack[Len(stack)]
SetTop(frames, f) == [frames EXCEPT ![Len(frames)] = f]
Container(f) == IF f.pc = "channel" THEN "channel" ELSE "item"
Children(f) == IF f.pc = "channel" THEN f.xml.channel ELSE f.xml.items[f.i + 1]
AtChild(f) == f.pc \in {"channel", "item"} /\ f.j < Len(Children(f))
Child(f) == Children(f)[f.j + 1]

\* The frame with the child under dispatch done and its entity replaced.
Advance(f, entity) ==
    IF f.pc = "channel"
    THEN [f EXCEPT !.feed_data = entity, !.j = @ + 1]
    ELSE [f EXCEPT !.entry = entity, !.j = @ + 1]

\* An exception caught where the child is dispatched: the child is skipped
\* and the call goes on.
Unwind_skip_child(frames, error) ==
    [stack |-> SetTop(frames, [frames[Len(frames)] EXCEPT !.j = @ + 1]),
     raised |-> None]

\* An exception raised by a handler: neither the dispatch, nor parse_source,
\* nor parse_rss2 catches it, so every call in progress ends with it.
Unwind(frames, error) == [stack |-> <<>>, raised |-> Some(error)]

Raise(error, log) ==
    LET u == Unwind(stack, error)
    IN  /\ stack' = u.stack
        /\ results' = IF u.raised = None THEN results
                      ELSE Append(results, Failure(u.raised[1]))
        /\ last' = IF u.raised = None THEN last ELSE Some(stack[1])
        /\ logs' = IF u.raised = None THEN logs ELSE Append(logs, log)

\* The parse_entry argument parse_source gives the parser of the fetched
\* document, and its variant passing True.
NestedParseEntryOn == TRUE
NestedParseEntry == FALSE

\* entry_list starting from the list of the call before.
NewEntryList_shared(previous) ==
    IF previous # <<>> /\ previous[Len(previous)].ok
       /\ previous[Len(previous)].feed[1].entries # None
    THEN previous[Len(previous)].feed[1].entries[1]
    ELSE <<>>

\* entry_list = []
NewEntryList(previous) == <<>>

\* Where parse_rss2 goes after parse_channel when make_legal_as_atom is
\* inside the "if parse_entry" block.
AfterChannel_legal_inside(with_entries) == IF with_entries THEN "items" ELSE "return"

\* Where parse_rss2 goes after parse_channel: to the items when parse_entry
\* holds, else to make_legal_as_atom.
AfterChannel(with_entries) == IF with_entries THEN "items" ELSE "legal"

\* feed_data.entries assigned only when there is an entry.
AssignEntries_nonempty(feed_data, entry_list) ==
    IF entry_list = <<>> THEN feed_data
    ELSE [feed_data EXCEPT !.entries = Some(entry_list)]

\* feed_data.entries = entry_list
AssignEntries(feed_data, entry_list) ==
    [feed_data EXCEPT !.entries = Some(entry_list)]

\* The timestamps of the entries assigned to the feed.
Stamps(feed_data) ==
    LET entries == IF feed_data.entries = None THEN <<>> ELSE feed_data.entries[1]
    IN  {entries[k].published_at[1] :
            k \in {n \in 1..Len(entries) : entries[n].published_at # None}}

\* Whether make_legal_as_atom has to ask for the time.
ReadsClock(feed_data) == feed_data.updated_at = None /\ Stamps(feed_data) = {}

Max(S) == CHOOSE m \in S : \A n \in S : n <= m

\* rss_base.make_legal_as_atom: an id derived from the origin url when none
\* was mapped, a self link to the origin url when there is none, and an
\* updated_at when the channel had no pubDate: the latest timestamp of the
\* entries if any has one, else the time now.
make_legal_as_atom(feed_data, session, now) ==
    LET stamps == Stamps(feed_data)
        has_self == \E k \in 1..Len(feed_data.links) :
                        feed_data.links[k].relation = "self"
    IN  [feed_data EXCEPT
            !.id = IF @ = None THEN Some(session.feed_url) ELSE @,
            !.links = IF has_self THEN @
                      ELSE Append(@, Link(Some(session.feed_url), "self", None)),
            !.updated_at = IF @ # None THEN @
                           ELSE IF stamps # {} THEN Some(Max(stamps))
                           ELSE Some(now)]

\* ---------------------------------------------------------------- actions

Init ==
    /\ xml = Document(<<>>, <<>>)
    /\ parse_entry \in BOOLEAN
    /\ stack = <<>>
    /\ results = <<>>
    /\ last = None
    /\ fetched = <<>>
    /\ logs = <<>>
    /\ clock = 0
    /\ gElem = Guid(None)
    /\ gOut = None

Composing(doc) == stack = <<>> /\ results = <<>> /\ Leaves(doc) <= MaxLeaves

\* The caller's document gets one more channel child, item, or child of
\* its last item.
AddChannelChild ==
    /\ \E e \in ChannelElems : xml' = [xml EXCEPT !.channel = Append(@, e)]
    /\ Composing(xml')
    /\ UNCHANGED <<parse_entry, stack, results, last, fetched, logs, clock, gvars>>

AddItem ==
    /\ xml' = [xml EXCEPT !.items = Append(@, <<>>)]
    /\ Composing(xml')
    /\ UNCHANGED <<parse_entry, stack, results, last, fetched, logs, clock, gvars>>

AddItemChild ==
    /\ xml.items # <<>>
    /\ \E e \in ItemElems : xml' = [xml EXCEPT !.items[Len(xml.items)] = Append(@, e)]
    /\ Composing(xml')
    /\ UNCHANGED <<parse_entry, stack, results, last, fetched, logs, clock, gvars>>

\* parse_rss2(xml, feed_url, parse_entry) is called: lines up to the call of
\* parse_channel.
ParseRss2 ==
    /\ stack = <<>>
    /\ Len(results) < MaxCalls
    /\ stack' = <<Frame(xml, FEED_URL, parse_entry)>>
    /\ fetched' = <<>>
    /\ last' = None
    /\ UNCHANGED <<xml, parse_entry, results, logs, clock, gvars>>

\* The next child of the channel or of the item goes through the handlers
\* registered for it (all but parse_source).
Dispatch ==
    /\ stack # <<>>
    /\ AtChild(Top)
    /\ LET paths == Matching(Container(Top), Child(Top))
           entity == IF Top.pc = "channel" THEN Top.feed_data ELSE Top.entry
       IN  /\ ~IsSourcePath(paths)
           /\ LET r == DispatchChild(entity, paths, Child(Top), Top.session)
              IN  IF r.raised
                  THEN Raise(r.error, fetched)
                  ELSE /\ stack' = SetTop(stack, Advance(Top, r.entity))
                       /\ UNCHANGED <<results, last, logs>>
    /\ UNCHANGED <<xml, parse_entry, fetched, clock, gvars>>

\* parse_source on the next child of the item: open_url, read, get_format,
\* and the call of the parser found with parse_entry=False.  Every source
\* element is fetched anew, and the url answers as it does at that time.
ParseSource ==
    /\ stack # <<>>
    /\ Len(stack) < MaxDepth
    /\ AtChild(Top)
    /\ IsSourcePath(Matching(Container(Top), Child(Top)))
    /\ LET url == Get(Child(Top), "url")[1]
       IN  \E o \in WebOutcomes :
              /\ fetched' = Append(fetched,
                                   [depth |-> Len(stack), item |-> Top.i + 1,
                                    child |-> Top.j + 1, url |-> url,
                                    outcome |-> o])
              /\ IF o.kind = "rss2"
                 THEN /\ stack' = Append(stack, Frame(o.xml, url, NestedParseEntry))
                      /\ UNCHANGED <<results, last, logs>>
                 ELSE Raise(o.kind, fetched')
    /\ UNCHANGED <<xml, parse_entry, clock, gvars>>

\* parse_channel has returned the feed.
EndChannel ==
    /\ stack # <<>>
    /\ Top.pc = "channel"
    /\ Top.j = Len(Top.xml.channel)
    /\ stack' = SetTop(stack, [Top EXCEPT !.pc = AfterChannel(Top.parse_entry),
                                          !.entry_list = NewEntryList(results),
                                          !.j = 0])
    /\ UNCHANGED <<xml, parse_entry, results, last, fetched, logs, clock, gvars>>

\* parse_item is called on the next item and creates the Entry.
BeginItem ==
    /\ stack # <<>>
    /\ Top.pc = "items"
    /\ Top.i < Len(Top.xml.items)
    /\ stack' = SetTop(stack, [Top EXCEPT !.pc = "item", !.entry = Entry, !.j = 0])
    /\ UNCHANGED <<xml, parse_entry, results, last, fetched, logs, clock, gvars>>

\* parse_item has returned the entry, which entry_list gets.
EndItem ==
    /\ stack # <<>>
    /\ Top.pc = "item"
    /\ Top.j = Len(Children(Top))
    /\ stack' = SetTop(stack, [Top EXCEPT !.pc = "items",
                                          !.entry_list = Append(@, Top.entry),
                                          !.entry = Entry,
                                          !.i = @ + 1, !.j = 0])
    /\ UNCHANGED <<xml, parse_entry, results, last, fetched, logs, clock, gvars>>

\* The loop over the items is over.
EndItems ==
    /\ stack # <<>>
    /\ Top.pc = "items"
    /\ Top.i = Len(Top.xml.items)
    /\ stack' = SetTop(stack, [Top EXCEPT
                                  !.pc = "legal",
                                  !.feed_data = AssignEntries(@, Top.entry_list)])
    /\ UNCHANGED <<xml, parse_entry, results, last, fetched, logs, clock, gvars>>

\* make_legal_as_atom(feed_data, session), which reads the clock when it has
\* no other timestamp for the feed.
MakeLegal ==
    /\ stack # <<>>
    /\ Top.pc = "legal"
    /\ \E now \in clock..MaxClock :
          /\ ReadsClock(Top.feed_data) \/ now = clock
          /\ clock' = now
          /\ stack' = SetTop(stack, [Top EXCEPT
                                        !.pc = "return",
                                        !.norm = @ + 1,
                                        !.feed_data =
                                            make_legal_as_atom(@, Top.session, now)])
    /\ UNCHANGED <<xml, parse_entry, results, last, fetched, logs, gvars>>

\* return feed_data, None: to the caller of the top-level call, or to
\* parse_source, whose value is the feed.
Return ==
    /\ stack # <<>>
    /\ Top.pc = "return"
    /\ IF Len(stack) = 1
       THEN /\ stack' = <<>>
            /\ results' = Append(results, Success(Top.feed_data))
            /\ last' = Some(Top)
            /\ logs' = Append(logs, fetched)
       ELSE LET caller == stack[Len(stack) - 1]
                path == Matching(Container(caller), Child(caller))[1]
                value == Some(Top.feed_data)
            IN  /\ stack' = SetTop(SubSeq(stack, 1, Len(stack) - 1),
                                   Advance(caller,
                                           apply(caller.entry, path.attr_name, value)))
                /\ UNCHANGED <<results, last, logs>>
    /\ UNCHANGED <<xml, parse_entry, fetched, clock, gvars>>

Next ==
    \/ AddChannelChild
    \/ AddItem
    \/ AddItemChild
    \/ ParseRss2
    \/ Dispatch
    \/ ParseSource
    \/ EndChannel
    \/ BeginItem
    \/ EndItem
    \/ EndItems
    \/ MakeLegal
    \/ Return

Spec == Init /\ [][Next]_vars

\* ------------------------------------------------- parse_guid on its own

\* How many leading positions of the UUID the inputs corrupt.
MaxCorrupt == 9

Corrupt(text, k, c) == [text EXCEPT ![k] = c]

GuidBodies ==
    {UUID0, EXAMPLE, OPAQUE, None, SubSeq(UUID0, 1, 35), UUID0 \o <<"0">>}
    \cup {Corrupt(UUID0, k, c) : k \in 1..MaxCorrupt, c \in {"g", "-", "f"}}

GuidPrefixes == {None, <<"{">>, <<"{", "{">>, HTTP, HTTPS}
GuidSuffixes == {None, <<"}">>, <<"\n">>, <<"}", "\n">>, <<"}", "}">>}

GuidTexts == {p \o b \o s : p \in GuidPrefixes, b \in GuidBodies, s \in GuidSuffixes}

GuidFlags == {None, Some("False"), Some("True"), Some("false")}

GuidElems ==
    {Elem("guid", "", t, [NoAttr EXCEPT !.isPermalink = f]) :
        t \in GuidTexts, f \in GuidFlags}

GuidInit ==
    /\ gElem \in GuidElems
    /\ gOut = None
    /\ xml = [channel |-> <<>>, items |-> <<>>]
    /\ parse_entry = TRUE
    /\ stack = <<>>
    /\ results = <<>>
    /\ last = None
    /\ fetched = <<>>
    /\ logs = <<>>
    /\ clock = 0

ParseGuid ==
    /\ gOut = None
    /\ gOut' = Some(parse_guid(gElem))
    /\ UNCHANGED <<gElem, pvars>>

GuidNext == ParseGuid

GuidSpec == GuidInit /\ [][GuidNext]_vars

\* ----------------------------------------------------------------- claims

\* What the claims read off the input document, without the handlers.
Completed == stack = <<>> /\ results # <<>>
Latest == results[Len(results)]
LatestFeed == Latest.feed[1]

Positions(children, tags) == {k \in 1..Len(children) : children[k].tag \in tags}

LastPosition(S) == CHOOSE m \in S : \A n \in S : n <= m

\* The instant of the last pubDate among the children, if there is one.
LastDate(children) ==
    LET at == Positions(children, {"pubDate"})
    IN  IF at = {} THEN None ELSE Some(Instant(children[LastPosition(at)].text))

\* The text of the last title among the children, if there is one.
LastTitle(children) ==
    LET at == Positions(children, {"title"})
    IN  IF at = {} THEN None ELSE Some(children[LastPosition(at)].text)

LinkChildren(children) ==
    SelectSeq(children, LAMBDA e : e.tag \in {"enclosure", "comments", "link"})

SourceCount(items) ==
    LET RECURSIVE Sum(_)
        Sum(s) == IF s = <<>> THEN 0
                  ELSE Cardinality(Positions(Head(s), {"source"})) + Sum(Tail(s))
    IN  Sum(items)

\* The fetches of the current call that did not give an RSS 2.0 document.
FailedFetches == {n \in 1..Len(fetched) : fetched[n].outcome.kind # "rss2"}

\* A child whose handler ends the call: a guid without text, or a source
\* whose fetch did not give an RSS 2.0 document.
FatalChild(items, k, n) ==
    \/ items[k][n].tag = "guid" /\ items[k][n].text = None
    \/ /\ items[k][n].tag = "source"
       /\ \E m \in FailedFetches : fetched[m].item = k /\ fetched[m].child = n

HasFatalChild(items) ==
    \E k \in 1..Len(items) : \E n \in 1..Len(items[k]) : FatalChild(items, k, n)

\* The top-level call has mapped the channel and not yet normalized the feed.
ChannelMapped == stack # <<>> /\ stack[1].pc \in {"items", "item", "legal"}

HasHttpPrefix(text) == Len(text) >= 7 /\ SubSeq(text, 1, 7) = HTTP

UuidCore(text) ==
    LET a == IF text # <<>> /\ Head(text) = "{" THEN Tail(text) ELSE text
        b == IF a # <<>> /\ a[Len(a)] = "\n" THEN SubSeq(a, 1, Len(a) - 1) ELSE a
    IN  IF b # <<>> /\ b[Len(b)] = "}" THEN SubSeq(b, 1, Len(b) - 1) ELSE b

IsUuid(text) ==
    /\ Len(text) = 36
    /\ \A k \in 1..36 : (text[k] = "-") <=> (k \in {9, 14, 19, 24})
    /\ \A k \in 1..36 : text[k] \in HexDigit \cup {"-"}

\* C1: parse_guid is an ordered three-way decision.  For every element with
\* text and every value of the isPermalink attribute: if the text starts
\* with http:// and the attribute is not "False" the result is the text as
\* it is; otherwise, if the text has the shape GUID_PATTERN accepts, the
\* result is urn:uuid: followed by the text; otherwise the result is None.
C1_DecisionList ==
    (gOut # None /\ gElem.text # None) =>
        LET text == gElem.text
            flag == gElem.attrib.isPermalink
        IN  /\ ~gOut[1].raised
            /\ gOut[1].value =
                  IF HasHttpPrefix(text) /\ flag # Some("False") THEN Some(text)
                  ELSE IF IsUuid(UuidCore(text)) THEN Some(URN_UUID \o text)
                  ELSE None
            /\ (text = UUID0 /\ flag = None) => gOut[1].value = Some(URN_UUID \o UUID0)
            /\ (text = HTTP \o EXAMPLE /\ flag = None) => gOut[1].value = Some(text)
            /\ (text = HTTP \o EXAMPLE /\ flag = Some("False")) => gOut[1].value = None
            /\ text = OPAQUE => gOut[1].value = None

C1_Witness ==
    /\ gOut # None
    /\ gElem.text = HTTP \o EXAMPLE
    /\ gElem.attrib.isPermalink = Some("False")
    /\ gOut[1].value = None

\* C2: a text that is a UUID, with or without enclosing braces, gives
\* urn:uuid: followed by the 36 characters of the UUID.
C2_CanonicalUrn ==
    (gOut # None /\ (IsUuid(gElem.text) \/ gElem.text = <<"{">> \o UUID0 \o <<"}">>)) =>
        gOut[1].value = Some(URN_UUID \o UuidCore(gElem.text))

\* C3: an unusable guid never makes the call fail.  parse_guid raises for
\* no element, and a call that fails fails because of a sub-document.
C3_UnusableGuidNotFatal ==
    /\ gOut # None => ~gOut[1].raised
    /\ \A k \in 1..Len(results) :
          results[k].ok
          \/ results[k].error \in {"FetchError", "UnknownFormat", "MalformedDocument"}

SameElement(a, b) == a.depth = b.depth /\ a.item = b.item /\ a.child = b.child

\* C4: when a source's fetch, format detection or parse fails, the call
\* ends with that error and without a feed, the failing fetch is the last
\* thing the call fetched, and the fetcher was invoked once for that source
\* element.  No source element is ever fetched twice.
C4_SourceFailureFatal ==
    /\ \A n, m \in 1..Len(fetched) : SameElement(fetched[n], fetched[m]) => n = m
    /\ (stack # <<>>) => FailedFetches = {}
    /\ (Completed /\ FailedFetches # {}) =>
          /\ FailedFetches = {Len(fetched)}
          /\ ~Latest.ok
          /\ Latest.feed = None
          /\ Latest.error = fetched[Len(fetched)].outcome.kind
          /\ last[1].i + 1 = fetched[Len(fetched)].item
          /\ last[1].j + 1 = fetched[Len(fetched)].child

C4_Witness ==
    /\ Completed
    /\ ~Latest.ok
    /\ Latest.error = "FetchError"
    /\ xml.items = << <<Source(SOURCE_URL), Source(SOURCE_URL)>> >>
    /\ Len(fetched) = 2
    /\ fetched[1].outcome.kind = "rss2"

ItemRelation(e) ==
    CASE e.tag = "enclosure" -> "enclosure"
      [] e.tag = "comments" -> "discussion"
      [] e.tag = "link" -> "alternate"

ChannelRelation(e) ==
    IF e.ns \in ATOM_XMLNS_SET
    THEN (IF e.attrib.rel = None THEN "alternate" ELSE e.attrib.rel[1])
    ELSE "alternate"

\* C5: the links of an entry are those of its enclosure, comments and link
\* children, an enclosure's with relation "enclosure" and a comments' with
\* relation "discussion" whatever rel attribute the element has, a link's
\* with "alternate"; the links of the channel's Atom link children have the
\* element's rel, "alternate" when it has none.
C5_Relations ==
    /\ (Completed /\ Latest.ok /\ parse_entry) =>
          \A k \in 1..Len(xml.items) :
              LET from == LinkChildren(xml.items[k])
                  links == LatestFeed.entries[1][k].links
              IN  /\ Len(links) = Len(from)
                  /\ \A n \in 1..Len(from) : links[n].relation = ItemRelation(from[n])
    /\ ChannelMapped =>
          LET from == SelectSeq(xml.channel, LAMBDA e : e.tag = "link")
              links == stack[1].feed_data.links
          IN  /\ Len(links) = Len(from)
              /\ \A n \in 1..Len(from) : links[n].relation = ChannelRelation(from[n])

C5_Witness ==
    /\ Completed /\ Latest.ok /\ parse_entry
    /\ xml.items = << <<Enclosure, Comments>> >>
    /\ LatestFeed.entries[1][1].links[1].relation = "enclosure"
    /\ LatestFeed.entries[1][1].links[2].relation = "discussion"

LinkUri(e) == IF e.tag = "enclosure" THEN e.attrib.url ELSE Some(e.text)

\* C6: scalar fields are last-write-wins and collections keep document
\* order.  The feed's title is that of the channel's last title, an entry's
\* published_at that of the item's last pubDate, an entry's links are those
\* of its link-giving children in document order; and a call fails only
\* where a child's handler fails, never for a repeated element.
C6_LastWriteWins ==
    /\ ChannelMapped =>
          /\ LastTitle(xml.channel) = None => stack[1].feed_data.title = None
          /\ LastTitle(xml.channel) # None =>
                /\ stack[1].feed_data.title # None
                /\ stack[1].feed_data.title[1].value = LastTitle(xml.channel)[1]
          /\ stack[1].feed_data.updated_at = LastDate(xml.channel)
    /\ (Completed /\ Latest.ok /\ parse_entry) =>
          \A k \in 1..Len(xml.items) :
              LET from == LinkChildren(xml.items[k])
                  entry == LatestFeed.entries[1][k]
              IN  /\ entry.published_at = LastDate(xml.items[k])
                  /\ Len(entry.links) = Len(from)
                  /\ \A n \in 1..Len(from) : entry.links[n].uri = LinkUri(from[n])
    /\ (Completed /\ ~Latest.ok) => (parse_entry /\ HasFatalChild(xml.items))

C6_Witness ==
    /\ Completed /\ Latest.ok /\ parse_entry
    /\ xml.channel = <<TitleA, TitleB>>
    /\ LatestFeed.title[1].value = <<"B">>
    /\ LatestFeed.entries = Some(<<>>)

\* C7: with parse_entry the feed's entries are assigned, one entry per
\* item in document order, an empty list when the channel has no item;
\* without parse_entry no item is mapped and entries is not assigned.
C7_Entries ==
    /\ (Completed /\ Latest.ok /\ parse_entry) =>
          /\ LatestFeed.entries # None
          /\ Len(LatestFeed.entries[1]) = Len(xml.items)
          /\ \A k \in 1..Len(xml.items) :
                LET from == LinkChildren(xml.items[k])
                    entry == LatestFeed.entries[1][k]
                IN  /\ entry.published_at = LastDate(xml.items[k])
                    /\ [n \in 1..Len(entry.links) |-> entry.links[n].uri]
                          = [n \in 1..Len(from) |-> LinkUri(from[n])]
    /\ (Completed /\ ~parse_entry) =>
          /\ Latest.ok
          /\ LatestFeed.entries = None
          /\ last[1].i = 0
          /\ last[1].entry_list = <<>>
    /\ (stack # <<>> /\ ~stack[1].parse_entry) => stack[1].pc \notin {"items", "item"}

C7_Witness ==
    /\ Completed /\ Latest.ok /\ parse_entry
    /\ xml.items = <<>>
    /\ xml.channel # <<>>
    /\ LatestFeed.entries = Some(<<>>)

ItemStamps ==
    IF parse_entry
    THEN {LastDate(xml.items[k])[1] :
             k \in {n \in 1..Len(xml.items) : LastDate(xml.items[n]) # None}}
    ELSE {}

\* C8: make_legal_as_atom runs once in every call that returns, after the
\* channel and (with parse_entry) every item has been mapped, and the
\* feed's updated_at is then the channel's pubDate if it has one, else the
\* latest published_at of the mapped entries if any has one, else the time
\* read during the call.
C8_PostPass ==
    /\ \A d \in 1..Len(stack) :
          /\ stack[d].norm = (IF stack[d].pc = "return" THEN 1 ELSE 0)
          /\ (stack[d].pc = "return" /\ stack[d].parse_entry) =>
                /\ stack[d].i = Len(stack[d].xml.items)
                /\ Len(stack[d].feed_data.entries[1]) = Len(stack[d].xml.items)
    /\ (Completed /\ Latest.ok) =>
          /\ last[1].norm = 1
          /\ IF LastDate(xml.channel) # None
             THEN LatestFeed.updated_at = LastDate(xml.channel)
             ELSE IF ItemStamps # {}
             THEN /\ LatestFeed.updated_at[1] \in ItemStamps
                  /\ \A s \in ItemStamps : s <= LatestFeed.updated_at[1]
             ELSE LatestFeed.updated_at = Some(clock)

C8_Witness ==
    /\ Completed /\ Latest.ok /\ parse_entry
    /\ xml.channel = <<>>
    /\ xml.items = << <<PubDate(<<"3">>)>>, <<PubDate(<<"1">>)>> >>
    /\ LatestFeed.updated_at = Some(3)
    /\ last[1].norm = 1

\* C9 as stated: two calls on the same document and origin url, whose
\* source elements were answered alike, return the same thing, field for
\* field.
C9_IdenticalOutput ==
    \A a, b \in 1..Len(results) : logs[a] = logs[b] => results[a] = results[b]

HasDate(children) == LastDate(children) # None

\* The source of the entry of item k without the updated_at that came from
\* the clock: that of a fetched document whose channel has no pubDate.
ScrubSource(source, log, k) ==
    LET of == {m \in 1..Len(log) : log[m].item = k}
    IN  IF source = None \/ HasDate(log[LastPosition(of)].outcome.xml.channel)
        THEN source
        ELSE Some([source[1] EXCEPT !.updated_at = None])

ScrubEntries(entries, log) ==
    IF entries = None THEN None
    ELSE Some([k \in 1..Len(entries[1]) |->
                  [entries[1][k] EXCEPT !.source = ScrubSource(@, log, k)]])

Scrub(r, log) ==
    IF ~r.ok THEN r
    ELSE [r EXCEPT !.feed =
             Some([r.feed[1] EXCEPT
                      !.updated_at = IF HasDate(xml.channel) \/ ItemStamps # {}
                                     THEN @ ELSE None,
                      !.entries = ScrubEntries(@, log)])]

\* C9 as amended: two calls whose source elements were answered alike
\* return the same thing but for the updated_at that
\* make_legal_as_atom read from the clock: that of a feed whose channel has
\* no pubDate and none of whose mapped entries has one, and that of an
\* embedded source feed whose channel has no pubDate.
C9_IdenticalButClock ==
    /\ Len(logs) = Len(results)
    /\ \A a, b \in 1..Len(results) :
          logs[a] = logs[b] => Scrub(results[a], logs[a]) = Scrub(results[b], logs[b])
    /\ (stack # <<>>) =>
          /\ stack[1].xml = xml
          /\ (stack[1].pc = "channel" /\ stack[1].j = 0) => stack[1].feed_data = Feed
          /\ stack[1].pc = "items" => Len(stack[1].entry_list) = stack[1].i

C9_Witness ==
    /\ Len(results) = 2
    /\ results[1].ok
    /\ results[1] = results[2]
    /\ Len(xml.items) = 2
    /\ logs[1] # <<>>
    /\ logs[1] = logs[2]
    /\ results[1].feed[1].entries # None

NestedWork == 4 + Max({Len(o.xml.channel) : o \in WebOutcomes})

WorkOfItem(children, from) ==
    1 + (Len(children) - from)
      + Cardinality({k \in Positions(children, {"source"}) : k > from}) * NestedWork

FrameWork(f) ==
    LET RECURSIVE Rest(_)
        Rest(k) == IF k > Len(f.xml.items) THEN 0
                   ELSE 1 + WorkOfItem(f.xml.items[k], 0) + Rest(k + 1)
    IN  CASE f.pc = "channel" ->
                (Len(f.xml.channel) - f.j) + 1
                + (IF f.parse_entry THEN Rest(1) + 1 ELSE 0) + 2
          [] f.pc = "items" -> Rest(f.i + 1) + 1 + 2
          [] f.pc = "item" -> WorkOfItem(f.xml.items[f.i + 1], f.j) + Rest(f.i + 2) + 1 + 2
          [] f.pc = "legal" -> 2
          [] f.pc = "return" -> 1

Work(frames) ==
    IF frames = <<>> THEN 0
    ELSE IF Len(frames) = 1 THEN FrameWork(frames[1])
    ELSE FrameWork(frames[1]) - NestedWork + FrameWork(frames[2])

C10_Bounded ==
    /\ Len(stack) <= 2
    /\ Len(stack) = 2 =>
          /\ ~stack[2].parse_entry
          /\ stack[2].pc \notin {"items", "item"}
          /\ stack[2].i = 0
          /\ stack[2].entry_list = <<>>
          /\ stack[2].feed_data.entries = None
    /\ \A n \in 1..Len(fetched) : fetched[n].depth = 1
    /\ Len(fetched) <= SourceCount(xml.items)

C10_WorkDecreases == stack # <<>> => Work(stack') < Work(stack)

\* C10: source resolution is bounded.  At most two calls are ever in
\* progress; the nested one has parse_entry off, maps no item and fetches
\* nothing; the fetches of a top-level call are at most the source elements
\* of the document's items; and every step of a call uses up some of the
\* work the call has left, so the call ends.
C10_BoundedRecursion == []C10_Bounded /\ [][C10_WorkDecreases]_vars

C10_Witness ==
    /\ Len(stack) = 2
    /\ stack[2].xml = NestedCycle
    /\ stack[2].pc = "return"
    /\ stack[1].xml.items = << <<Source(SOURCE_URL), Source(SOURCE_URL)>> >>
    /\ Len(fetched) = 2

====
